---- MODULE Spec2Model ----
(***************************************************************************)
(* Model of src/rendezvous_server.rs: the peer registry (PeerMap: an       *)
(* in-memory map in front of a durable store), the dispatch loop of        *)
(* RendezvousServer::start with its datagram handlers, the detached tasks  *)
(* it spawns, and the stream connection tasks.                             *)
(*                                                                         *)
(* Atomicity: one step is one lock-protected map operation together with   *)
(* the local computation and the non-suspending sends that follow it.  A   *)
(* durable-store get is a suspension point: the waiter parks, the store    *)
(* answers in a step of its own, and the waiter resumes in a later step.   *)
(***************************************************************************)
EXTENDS Integers, Sequences, FiniteSets, Bags, TLC

(***************************************************************************)
(* Bounds of the model.                                                    *)
(***************************************************************************)
MaxMsgs == 3
MaxConns == 1
MaxTicks == 1

(***************************************************************************)
(* Time.  An Instant or a Duration is a millisecond count q * 2^31 + r     *)
(* with 0 <= r < 2^31, kept as two limbs so that counts beyond the range   *)
(* of a 32-bit signed integer stay exact.                                  *)
(***************************************************************************)
MaxI32 == 2147483647

Ms(n) == [q |-> 0, r |-> n]

TimeAdd(t, d) ==
    IF t.r > MaxI32 - d.r
    THEN [q |-> t.q + d.q + 1, r |-> (t.r - (MaxI32 - d.r)) - 1]
    ELSE [q |-> t.q + d.q, r |-> t.r + d.r]

\* t - d, for t >= d
TimeSub(t, d) ==
    IF t.r >= d.r
    THEN [q |-> t.q - d.q, r |-> t.r - d.r]
    ELSE [q |-> (t.q - d.q) - 1, r |-> ((MaxI32 - d.r) + t.r) + 1]

TimeGeq(t, d) == t.q > d.q \/ (t.q = d.q /\ t.r >= d.r)

\* Duration::as_millis() as i32: the low 32 bits, read as a signed integer
AsI32(d) == IF d.q % 2 = 0 THEN d.r ELSE (d.r - MaxI32) - 1

REG_TIMEOUT == 30000

\* the hour that Peer::default subtracts from Instant::now()
DefaultAge == Ms(3600000)

\* the clock when the server starts, and the steps by which it advances
StartTime == Ms(3600000)
Deltas == {Ms(REG_TIMEOUT), [q |-> 1, r |-> 0]}

(***************************************************************************)
(* Endpoints, ids, keys.                                                   *)
(***************************************************************************)
SockAddr(f, i, p) == [fam |-> f, ip |-> i, port |-> p]

\* "0.0.0.0:0"
AnyAddr == SockAddr(4, 0, 0)

\* every endpoint of the model: two on one IPv4 address, one on another, and
\* an IPv6 endpoint whose address has the number of the first
Addrs == {SockAddr(4, 1, 5000), SockAddr(4, 1, 4000),
          SockAddr(4, 9, 4000), SockAddr(6, 1, 4000)}

\* the endpoints that registrations, datagram replies, punch hole requests and
\* stream connections come from
RegAddrs == {SockAddr(4, 1, 5000), SockAddr(4, 9, 4000)}
ReplyAddrs == {SockAddr(4, 1, 5000)}
ReqAddrs == {SockAddr(4, 1, 4000), SockAddr(4, 9, 4000), SockAddr(6, 1, 4000)}
StreamAddrs == {SockAddr(4, 9, 4000), SockAddr(4, 1, 4000)}

\* the ids of the registry, and the ids a register_peer may carry
Ids == {"b1"}
PeerIds == Ids \cup {""}

K1 == <<1, 2, 3>>
K2 == <<4, 5, 6>>
EmptyPk == <<>>
Keys == {EmptyPk, K1, K2}

\* SocketAddr::ip().to_string()
IpString(a) == <<a.fam, a.ip>>

(***************************************************************************)
(* AddrMangle: an opaque reversible transform of an endpoint to bytes.     *)
(***************************************************************************)
Encode(a) == <<"mangled", a.port, a.ip, a.fam>>

Decode(b) ==
    IF Len(b) = 4 /\ b[1] = "mangled" THEN SockAddr(b[4], b[3], b[2]) ELSE AnyAddr

\* the bytes a peer may put in the socket_addr / local_addr field of a reply
Payloads == {Encode(a) : a \in StreamAddrs}
LocalBytes == {<<10, 0, 0, 7>>}

(***************************************************************************)
(* Peer, PeerSerde and the messages of rendezvous_proto.                   *)
(***************************************************************************)
NoPeer == [none |-> TRUE]
NoRec == [none |-> TRUE]

Peer(a, t, k) == [socket_addr |-> a, last_reg_time |-> t, pk |-> k]

\* the placeholder without the hour subtracted
DefaultPeerNow(t) == Peer(AnyAddr, t, EmptyPk)

\* impl Default for Peer, evaluated at time t
DefaultPeer(t) == Peer(AnyAddr, TimeSub(t, DefaultAge), EmptyPk)

PeerSerde(i, k) == [ip |-> i, pk |-> k]

NoMsg == [kind |-> "none"]
RegisterPeerResponse(b) == [kind |-> "register_peer_response", request_pk |-> b]
RegisterPkResponse(r) == [kind |-> "register_pk_response", result |-> r]
PunchHoleResponse(sa, f) ==
    [kind |-> "punch_hole_response", socket_addr |-> sa, failure |-> f]
PunchHole(sa) == [kind |-> "punch_hole", socket_addr |-> sa]
FetchLocalAddr(sa) == [kind |-> "fetch_local_addr", socket_addr |-> sa]

NoAddr == [none |-> TRUE]

VARIABLES
    now,        \* Instant::now()
    map,        \* PeerMap.map: id -> Peer
    db,         \* PeerMap.db: id -> PeerSerde
    tx,         \* the unbounded channel (tx, rx) of start
    tcp_punch,  \* RendezvousServer.tcp_punch: endpoint -> sink (connection number)
    loop,       \* the dispatch loop: at its select, or inside handle_msg
    tasks,      \* the detached tasks of update_addr and handle_msg
    conns,      \* the stream connection tasks
    ev,         \* what the last step handled and emitted
    nrecv,      \* inbound events so far
    nticks,     \* clock advances so far
    accepted,   \* id -> the first non-empty key a register_pk was accepted with
    everReg,    \* id -> a register_peer or register_pk was received for it
    lastReg     \* id -> endpoint and time of the latest registration received

vars == <<now, map, db, tx, tcp_punch, loop, tasks, conns, ev, nrecv, nticks,
          accepted, everReg, lastReg>>


(***************************************************************************)
(* Records of the processes.                                               *)
(***************************************************************************)
\* the locks a process holds at a point where it suspends: "map" is
\* PeerMap.map, "tcp_punch" is RendezvousServer.tcp_punch.  Every guard is a
\* temporary of one statement (get, is_in_memory, send_to_tcp, send_to_tcp_sync,
\* the accept branch and the end of the connection task) or is dropped by
\* drop(lock) before the send and before the spawn (update_addr).
HeldAtGuardKept(point) == IF point = "get.db_get" THEN {"map"} ELSE {}

HeldAt(point) == {}

Idle == [pc |-> "select", id |-> "", addr |-> NoAddr, pk |-> EmptyPk, v |-> NoRec,
         locks |-> {}]

\* a detached task: of update_addr ("reg") or of handle_msg ("punch")
Task(kind, pc, id, addr, t) ==
    [kind |-> kind, pc |-> pc, id |-> id, addr |-> addr, t |-> t, v |-> NoRec,
     locks |-> {}]

\* nfwd: forwarding-eligible messages handled; nwritten: messages written to
\* the sink of the connection
FreeConn == [pc |-> "free", addr |-> NoAddr, id |-> "", v |-> NoRec, nfwd |-> 0,
             nwritten |-> 0, locks |-> {}]

ConnIds == 1..MaxConns

\* what a step handled (op, id, from, arg), the copy of the peer it decided
\* on, and what it emitted: msg to `to`, via the datagram socket ("udp"), the
\* channel ("tx") or a stream sink ("sink": the connection written to, 0 if
\* there was none); conn is the connection task that took the step, 0 if none;
\* failed: the send or the write returned an error; v: the answer of the store
\* when get missed the cache; locks: the locks held during the send or write
Ev(op, id, from, arg, peer, msg, to, via, sink) ==
    [op |-> op, id |-> id, from |-> from, arg |-> arg, peer |-> peer,
     msg |-> msg, to |-> to, via |-> via, sink |-> sink, conn |-> 0,
     failed |-> FALSE, v |-> NoRec, locks |-> {}]

By(c, e) == [e EXCEPT !.conn = c]
Failing(ok, e) == [e EXCEPT !.failed = ~ok]
Cold(v, e) == [e EXCEPT !.v = v]
Holding(l, e) == [e EXCEPT !.locks = l]

Quiet == Ev("internal", "", NoAddr, <<>>, NoPeer, NoMsg, NoAddr, "none", 0)

Init ==
    /\ now = StartTime
    /\ map = [i \in Ids |-> NoPeer]
    /\ db \in [Ids -> {NoRec, PeerSerde(IpString(SockAddr(4, 1, 5000)), K1)}]
    /\ tx = <<>>
    /\ tcp_punch = [a \in Addrs |-> 0]
    /\ loop = Idle
    /\ tasks = EmptyBag
    /\ conns = [c \in ConnIds |-> FreeConn]
    /\ ev = Quiet
    /\ nrecv = 0
    /\ nticks = 0
    /\ accepted = [i \in Ids |-> IF db[i] = NoRec THEN EmptyPk ELSE db[i].pk]
    /\ everReg = [i \in Ids |-> FALSE]
    /\ lastReg = [i \in Ids |-> NoPeer]

(***************************************************************************)
(* PeerMap.                                                                *)
(***************************************************************************)
\* PeerMap::update_pk: the cache entry is overwritten
UpdatePkMap(m, id, addr, pk, t) == [m EXCEPT ![id] = Peer(addr, t, pk)]

\* PeerMap::update_pk: the durable record is overwritten
UpdatePkDb(d, id, addr, pk) == [d EXCEPT ![id] = PeerSerde(IpString(addr), pk)]

\* PeerMap::get after a cache miss, the store having answered v: the cache
\* after the hydration
Hydrate(m, id, v, t) ==
    IF v = NoRec THEN m
    ELSE [m EXCEPT ![id] = Peer(AnyAddr, TimeSub(t, DefaultAge), v.pk)]

\* get returning the placeholder although the store has no record
GetMissResultAlways(v, t) == DefaultPeer(t)

\* PeerMap::get after a cache miss: what it returns
GetMissResult(v, t) == IF v = NoRec THEN NoPeer ELSE DefaultPeer(t)

\* PeerMap::is_in_memory
IsInMemory(id) == map[id] # NoPeer

(***************************************************************************)
(* handle_msg, register_pk: the decision on the peer that get returned.    *)
(***************************************************************************)
\* update_pk called whatever key the peer holds
PkAcceptsAnyKey(peer) == TRUE

\* whether update_pk is called
PkAccepts(peer) == peer = NoPeer \/ peer.pk = EmptyPk

\* a set key rejects every later registration, the same key included
PkResultNoRepeat(peer, pk) ==
    IF peer # NoPeer /\ peer.pk # EmptyPk THEN "PK_MISMATCH" ELSE "OK"

PkResult(peer, pk) ==
    IF peer # NoPeer /\ peer.pk # EmptyPk /\ peer.pk # pk
    THEN "PK_MISMATCH" ELSE "OK"

\* the first non-empty key accepted for id
FirstAccepted(acc, id, pk) ==
    IF acc[id] = EmptyPk THEN [acc EXCEPT ![id] = pk] ELSE acc

(***************************************************************************)
(* update_addr.                                                            *)
(***************************************************************************)
RequestPk(pk) == pk = EmptyPk

(***************************************************************************)
(* handle_punch_hole_request: the decision on the peer that get returned,  *)
(* for a request from addr at time t.                                      *)
(***************************************************************************)
IsOffline(peer, t) == AsI32(TimeSub(t, peer.last_reg_time)) >= REG_TIMEOUT

\* the addresses compared without matching on the address family
SameIntranetAnyFamily(a, b) == a.ip = b.ip

SameIntranet(a, b) == a.fam = b.fam /\ a.ip = b.ip

PunchOutcome(peer, addr, t) ==
    IF peer = NoPeer
    THEN [msg |-> PunchHoleResponse(<<>>, "ID_NOT_EXIST"), to |-> NoAddr]
    ELSE IF IsOffline(peer, t)
    THEN [msg |-> PunchHoleResponse(<<>>, "OFFLINE"), to |-> NoAddr]
    ELSE [msg |-> IF SameIntranet(peer.socket_addr, addr)
                  THEN FetchLocalAddr(Encode(addr))
                  ELSE PunchHole(Encode(addr)),
          to |-> peer.socket_addr]

(***************************************************************************)
(* handle_hole_sent, handle_local_addr: the response and its destination.  *)
(***************************************************************************)
\* the response carrying the endpoint of the payload, not the observed one
HoleSentMsgEcho(phs_socket_addr, addr) == PunchHoleResponse(phs_socket_addr, "NONE")

HoleSentMsg(phs_socket_addr, addr) == PunchHoleResponse(Encode(addr), "NONE")
HoleSentTo(phs_socket_addr, addr) == Decode(phs_socket_addr)

LocalAddrMsg(la_socket_addr, la_local_addr, addr) ==
    PunchHoleResponse(la_local_addr, "NONE")
LocalAddrTo(la_socket_addr, la_local_addr, addr) == Decode(la_socket_addr)


(***************************************************************************)
(* Helpers of the actions.                                                 *)
(***************************************************************************)
\* tokio::spawn
Spawn(kind, pc, id, addr) ==
    tasks' = tasks (+) SetToBag({[Task(kind, pc, id, addr, now)
                                   EXCEPT !.locks = HeldAt("update_addr.spawn")]})

\* a detached task moves on, or ends
Becomes(t, u) == tasks' = (tasks (-) SetToBag({t})) (+) SetToBag({u})
Ends(t) == tasks' = tasks (-) SetToBag({t})

Running == BagToSet(tasks)

Received(id) == everReg' = [i \in Ids |-> everReg[i] \/ i = id]

\* a register_peer, or a register_pk that update_pk was called for, from addr
Registered(id, addr) ==
    lastReg' = [i \in Ids |-> IF i = id THEN [addr |-> addr, t |-> now]
                                        ELSE lastReg[i]]

\* a datagram is taken by the loop at its select
Datagram == loop.pc = "select" /\ nrecv < MaxMsgs /\ nrecv' = nrecv + 1

\* Sender::send
Enqueue(msg, to) == tx' = Append(tx, [msg |-> msg, to |-> to])

(***************************************************************************)
(* The clock.                                                              *)
(***************************************************************************)
Tick ==
    /\ nticks < MaxTicks
    /\ \E d \in Deltas : now' = TimeAdd(now, d)
    /\ nticks' = nticks + 1
    /\ ev' = Quiet
    /\ UNCHANGED <<map, db, tx, tcp_punch, loop, tasks, conns, nrecv, accepted, everReg, lastReg>>

(***************************************************************************)
(* start, the select loop: rx.recv.                                        *)
(***************************************************************************)
\* the error of a send or of a handler leaving the loop
AfterSendReturnsErr(ok) == IF ok THEN Idle ELSE [Idle EXCEPT !.pc = "stopped"]

\* the loop after socket.send or handle_msg returned (ok: without an error):
\* allow_err! logs the error and the loop goes on
AfterSend(ok) == Idle

LoopDrain ==
    /\ loop.pc = "select"
    /\ tx # <<>>
    /\ tx' = Tail(tx)
    /\ \E ok \in BOOLEAN :
           /\ ev' = Failing(ok, Ev("drain", "", NoAddr, <<>>, NoPeer, Head(tx).msg,
                                   Head(tx).to, "udp", 0))
           /\ loop' = AfterSend(ok)
    /\ UNCHANGED <<now, map, db, tcp_punch, tasks, conns, nrecv, nticks,
                   accepted, everReg, lastReg>>

(***************************************************************************)
(* handle_msg, register_peer: update_addr.                                 *)
(***************************************************************************)
RecvRegisterPeer(id, addr) ==
    /\ Datagram
    /\ Received(id)
    /\ Registered(id, addr)
    /\ IF id = ""
       THEN /\ ev' = Ev("register_peer", id, addr, <<>>, NoPeer, NoMsg, NoAddr, "none", 0)
            /\ UNCHANGED <<map, tasks>>
       ELSE IF map[id] # NoPeer
       THEN /\ map' = [map EXCEPT ![id] = Peer(addr, now, @.pk)]
            /\ ev' = Holding(HeldAt("update_addr.send"),
                             Ev("register_peer", id, addr, <<>>, map[id],
                                RegisterPeerResponse(RequestPk(map[id].pk)), addr,
                                "udp", 0))
            /\ UNCHANGED tasks
       ELSE /\ Spawn("reg", "db_wait", id, addr)
            /\ ev' = Quiet
            /\ UNCHANGED map
    /\ UNCHANGED <<now, db, tx, tcp_punch, loop, conns, nticks, accepted>>

\* the store answers the get of a detached task
DbAnswerTask(t) ==
    /\ t.pc = "db_wait"
    /\ Becomes(t, [t EXCEPT !.pc = "db_got", !.v = db[t.id]])
    /\ ev' = Quiet
    /\ UNCHANGED <<now, map, db, tx, tcp_punch, loop, conns, nrecv, nticks,
                   accepted, everReg, lastReg>>

\* the key the task of update_addr found in the store
RegTaskPk(v) == IF v = NoRec THEN EmptyPk ELSE v.pk

\* the task of update_addr resumes: the response is enqueued, the entry inserted
RegTaskFinish(t) ==
    /\ t.kind = "reg"
    /\ t.pc = "db_got"
    /\ LET pk == RegTaskPk(t.v)
           msg == RegisterPeerResponse(RequestPk(pk))
       IN /\ Enqueue(msg, t.addr)
          /\ map' = [map EXCEPT ![t.id] = Peer(t.addr, t.t, pk)]
          /\ ev' = Ev("register_peer", t.id, t.addr, <<>>, map[t.id], msg, t.addr, "tx", 0)
    /\ Ends(t)
    /\ UNCHANGED <<now, db, tcp_punch, loop, conns, nrecv, nticks, accepted, everReg, lastReg>>

(***************************************************************************)
(* handle_msg, register_pk.                                                *)
(***************************************************************************)
\* what register_pk does once get has returned peer
RegisterPkApply(m, id, addr, pk, peer, v) ==
    /\ IF PkAccepts(peer)
       THEN /\ map' = UpdatePkMap(m, id, addr, pk, now)
            /\ db' = UpdatePkDb(db, id, addr, pk)
            /\ Registered(id, addr)
       ELSE /\ map' = m
            /\ UNCHANGED <<db, lastReg>>
    /\ accepted' = IF PkResult(peer, pk) = "OK"
                   THEN FirstAccepted(accepted, id, pk) ELSE accepted
    /\ ev' = Cold(v, Ev("register_pk", id, addr, pk, peer,
                        RegisterPkResponse(PkResult(peer, pk)), addr, "udp", 0))

RecvRegisterPk(id, addr, pk) ==
    /\ Datagram
    /\ Received(id)
    /\ IF map[id] # NoPeer
       THEN /\ RegisterPkApply(map, id, addr, pk, map[id], NoRec)
            /\ UNCHANGED loop
       ELSE /\ loop' = [pc |-> "pk_wait", id |-> id, addr |-> addr, pk |-> pk,
                        v |-> NoRec, locks |-> HeldAt("get.db_get")]
            /\ ev' = Quiet
            /\ UNCHANGED <<map, db, accepted, lastReg>>
    /\ UNCHANGED <<now, tx, tcp_punch, tasks, conns, nticks>>

\* the store answers the get that handle_msg awaits
DbAnswerLoop ==
    /\ loop.pc = "pk_wait"
    /\ loop' = [loop EXCEPT !.pc = "pk_got", !.v = db[loop.id]]
    /\ ev' = Quiet
    /\ UNCHANGED <<now, map, db, tx, tcp_punch, tasks, conns, nrecv, nticks,
                   accepted, everReg, lastReg>>

\* handle_msg resumes: get hydrates and returns, register_pk goes on
LoopPkFinish ==
    /\ loop.pc = "pk_got"
    /\ RegisterPkApply(Hydrate(map, loop.id, loop.v, now), loop.id, loop.addr,
                       loop.pk, GetMissResult(loop.v, now), loop.v)
    /\ loop' = Idle
    /\ UNCHANGED <<now, tx, tcp_punch, tasks, conns, nrecv, nticks, everReg>>


(***************************************************************************)
(* handle_msg, punch_hole_request: handle_udp_punch_hole_request, inline   *)
(* when the id is in memory, in a detached task otherwise.                 *)
(***************************************************************************)
\* v: what the store answered when get missed the cache, NoRec otherwise
UdpPunchEmit(id, addr, peer, v) ==
    LET out == PunchOutcome(peer, addr, now)
        to == IF out.to # NoAddr THEN out.to ELSE addr
    IN /\ Enqueue(out.msg, to)
       /\ ev' = Cold(v, Ev("punch_hole_request", id, addr, <<>>, peer, out.msg, to,
                           "tx", 0))

RecvPunchHoleRequest(id, addr) ==
    /\ Datagram
    /\ IF IsInMemory(id)
       THEN /\ UdpPunchEmit(id, addr, map[id], NoRec)
            /\ UNCHANGED tasks
       ELSE /\ Spawn("punch", "start", id, addr)
            /\ ev' = Quiet
            /\ UNCHANGED tx
    /\ UNCHANGED <<now, map, db, tcp_punch, loop, conns, nticks, accepted, everReg, lastReg>>

\* the detached task calls get: a hit is answered at once, a miss asks the store
PunchTaskStart(t) ==
    /\ t.kind = "punch"
    /\ t.pc = "start"
    /\ IF map[t.id] # NoPeer
       THEN /\ UdpPunchEmit(t.id, t.addr, map[t.id], NoRec)
            /\ Ends(t)
       ELSE /\ Becomes(t, [t EXCEPT !.pc = "db_wait",
                                    !.locks = HeldAt("get.db_get")])
            /\ ev' = Quiet
            /\ UNCHANGED tx
    /\ UNCHANGED <<now, map, db, tcp_punch, loop, conns, nrecv, nticks, accepted,
                   everReg, lastReg>>

\* the detached task resumes: get hydrates and returns, the outcome is enqueued
PunchTaskFinish(t) ==
    /\ t.kind = "punch"
    /\ t.pc = "db_got"
    /\ map' = Hydrate(map, t.id, t.v, now)
    /\ UdpPunchEmit(t.id, t.addr, GetMissResult(t.v, now), t.v)
    /\ Ends(t)
    /\ UNCHANGED <<now, db, tcp_punch, loop, conns, nrecv, nticks, accepted, everReg, lastReg>>

(***************************************************************************)
(* handle_msg, punch_hole_sent and local_addr on the datagram socket.      *)
(***************************************************************************)
RecvHoleSent(payload, addr) ==
    /\ Datagram
    /\ \E ok \in BOOLEAN :
           /\ ev' = Failing(ok, Ev("punch_hole_sent", "", addr, payload, NoPeer,
                                   HoleSentMsg(payload, addr),
                                   HoleSentTo(payload, addr), "udp", 0))
           /\ loop' = AfterSend(ok)
    /\ UNCHANGED <<now, map, db, tx, tcp_punch, tasks, conns, nticks,
                   accepted, everReg, lastReg>>

RecvLocalAddr(payload, bytes, addr) ==
    /\ Datagram
    /\ \E ok \in BOOLEAN :
           /\ ev' = Failing(ok, Ev("local_addr", "", addr, <<payload, bytes>>, NoPeer,
                                   LocalAddrMsg(payload, bytes, addr),
                                   LocalAddrTo(payload, bytes, addr), "udp", 0))
           /\ loop' = AfterSend(ok)
    /\ UNCHANGED <<now, map, db, tx, tcp_punch, tasks, conns, nticks,
                   accepted, everReg, lastReg>>

\* system_info, any other variant, or bytes that do not parse
RecvOther(addr) ==
    /\ Datagram
    /\ ev' = Ev("other", "", addr, <<>>, NoPeer, NoMsg, NoAddr, "none", 0)
    /\ UNCHANGED <<now, map, db, tx, tcp_punch, loop, tasks, conns, nticks,
                   accepted, everReg, lastReg>>

(***************************************************************************)
(* start, the select loop: listener.accept, and the connection task.       *)
(***************************************************************************)
FreeConns == {c \in ConnIds : conns[c].pc = "free"}
FirstFreeConn == CHOOSE c \in FreeConns : \A d \in FreeConns : c <= d

\* the connection still holds its socket
Open(c) == conns[c].pc \notin {"free", "done"}

\* the sink left in tcp_punch
RemoveSinkNothing(a) == tcp_punch' = tcp_punch

\* HashMap::remove on tcp_punch
RemoveSink(a) == tcp_punch' = [x \in Addrs |-> IF x = a THEN 0 ELSE tcp_punch[x]]

Accept(addr) ==
    /\ loop.pc = "select"
    /\ nrecv < MaxMsgs
    /\ nrecv' = nrecv + 1
    /\ FreeConns # {}
    /\ \A c \in ConnIds : Open(c) => conns[c].addr # addr
    /\ tcp_punch' = [tcp_punch EXCEPT ![addr] = FirstFreeConn]
    /\ conns' = [conns EXCEPT ![FirstFreeConn] =
                     [FreeConn EXCEPT !.pc = "read", !.addr = addr,
                                      !.locks = HeldAt("start.stream_read")]]
    /\ ev' = Ev("accept", "", addr, <<>>, NoPeer, NoMsg, NoAddr, "none", 0)
    /\ UNCHANGED <<now, map, db, tx, loop, tasks, nticks, accepted, everReg, lastReg>>

\* b.next() yields a message
StreamMsg(c) == conns[c].pc = "read" /\ nrecv < MaxMsgs /\ nrecv' = nrecv + 1

\* the connections after a write to the sink of connection s (0: no sink)
Wrote(cs, s) == IF s = 0 THEN cs ELSE [cs EXCEPT ![s].nwritten = @ + 1]

\* the connection task after send_to_tcp_sync returned (ok: without an error):
\* allow_err! logs the error and the read loop goes on
AfterSyncWrite(cn, ok) == cn

\* handle_tcp_punch_hole_request once get has returned peer; v is what the
\* store answered when get missed the cache, cn the connection task after it
TcpPunchEmit(c, id, peer, v, cn) ==
    LET addr == conns[c].addr
        out == PunchOutcome(peer, addr, now)
        sink == tcp_punch[addr]
    IN IF out.to # NoAddr
       THEN /\ Enqueue(out.msg, out.to)
            /\ ev' = By(c, Cold(v, Ev("tcp_punch_hole_request", id, addr, <<>>, peer,
                                      out.msg, out.to, "tx", 0)))
            /\ conns' = [conns EXCEPT ![c] = cn]
            /\ UNCHANGED tcp_punch
       ELSE /\ RemoveSink(addr)
            /\ \E ok \in (IF sink # 0 THEN BOOLEAN ELSE {TRUE}) :
                   /\ ev' = By(c, Failing(ok, Holding(HeldAt("send_to_tcp_sync.write"),
                                  Cold(v, Ev("tcp_punch_hole_request", id, addr, <<>>,
                                             peer, out.msg, addr, "sink", sink)))))
                   /\ conns' = Wrote([conns EXCEPT ![c] = AfterSyncWrite(cn, ok)], sink)
            /\ UNCHANGED tx

ConnRecvPunchHoleRequest(c, id) ==
    /\ StreamMsg(c)
    /\ IF map[id] # NoPeer
       THEN TcpPunchEmit(c, id, map[id], NoRec, conns[c])
       ELSE /\ conns' = [conns EXCEPT ![c].pc = "get_wait", ![c].id = id,
                                      ![c].locks = HeldAt("get.db_get")]
            /\ ev' = Quiet
            /\ UNCHANGED <<tx, tcp_punch>>
    /\ UNCHANGED <<now, map, db, loop, tasks, nticks, accepted, everReg, lastReg>>

\* the store answers the get of a connection task
DbAnswerConn(c) ==
    /\ conns[c].pc = "get_wait"
    /\ conns' = [conns EXCEPT ![c].pc = "get_got", ![c].v = db[conns[c].id]]
    /\ ev' = Quiet
    /\ UNCHANGED <<now, map, db, tx, tcp_punch, loop, tasks, nrecv, nticks,
                   accepted, everReg, lastReg>>

\* the connection task resumes: get hydrates and returns, the outcome is sent
ConnPunchFinish(c) ==
    /\ conns[c].pc = "get_got"
    /\ map' = Hydrate(map, conns[c].id, conns[c].v, now)
    /\ TcpPunchEmit(c, conns[c].id, GetMissResult(conns[c].v, now), conns[c].v,
                    [conns[c] EXCEPT !.pc = "read", !.id = "", !.v = NoRec,
                                     !.locks = HeldAt("start.stream_read")])
    /\ UNCHANGED <<now, db, loop, tasks, nrecv, nticks, accepted, everReg, lastReg>>

\* send_to_tcp: the sink of addr_a is taken out of tcp_punch and written to
\* (by a task spawned for the write); cn is the connection task after it
SendToTcp(c, op, arg, msg, addr_a, cn) ==
    LET sink == IF addr_a \in Addrs THEN tcp_punch[addr_a] ELSE 0
    IN /\ RemoveSink(addr_a)
       /\ ev' = By(c, Holding(HeldAt("send_to_tcp.write"),
                              Ev(op, "", conns[c].addr, arg, NoPeer, msg, addr_a,
                                 "sink", sink)))
       /\ conns' = Wrote([conns EXCEPT ![c] = cn], sink)

\* the read loop going on after a forwarding-eligible message (no break)
AfterForwardNoBreak(cn) == [cn EXCEPT !.nfwd = @ + 1]

\* the state of the connection task after a forwarding-eligible message
AfterForward(cn) == [cn EXCEPT !.pc = "exit", !.nfwd = @ + 1]

ConnRecvHoleSent(c, payload) ==
    /\ StreamMsg(c)
    /\ SendToTcp(c, "tcp_punch_hole_sent", payload,
                 HoleSentMsg(payload, conns[c].addr),
                 HoleSentTo(payload, conns[c].addr), AfterForward(conns[c]))
    /\ UNCHANGED <<now, map, db, tx, loop, tasks, nticks, accepted, everReg, lastReg>>

ConnRecvLocalAddr(c, payload, bytes) ==
    /\ StreamMsg(c)
    /\ SendToTcp(c, "tcp_local_addr", <<payload, bytes>>,
                 LocalAddrMsg(payload, bytes, conns[c].addr),
                 LocalAddrTo(payload, bytes, conns[c].addr), AfterForward(conns[c]))
    /\ UNCHANGED <<now, map, db, tx, loop, tasks, nticks, accepted, everReg, lastReg>>

\* any other variant, or bytes that do not parse: the loop reads on
ConnRecvOther(c) ==
    /\ StreamMsg(c)
    /\ ev' = By(c, Ev("tcp_other", "", conns[c].addr, <<>>, NoPeer, NoMsg, NoAddr,
                      "none", 0))
    /\ UNCHANGED <<now, map, db, tx, tcp_punch, loop, tasks, conns, nticks,
                   accepted, everReg, lastReg>>

\* b.next() yields None or an error: the while loop ends
ConnClose(c) ==
    /\ conns[c].pc = "read"
    /\ conns' = [conns EXCEPT ![c].pc = "exit"]
    /\ ev' = Quiet
    /\ UNCHANGED <<now, map, db, tx, tcp_punch, loop, tasks, nrecv, nticks,
                   accepted, everReg, lastReg>>

\* the task ending without the remove
ConnExitKeepsSink(c) ==
    /\ conns[c].pc = "exit"
    /\ conns' = [conns EXCEPT ![c].pc = "done"]
    /\ ev' = Quiet
    /\ UNCHANGED <<now, map, db, tx, tcp_punch, loop, tasks, nrecv, nticks,
                   accepted, everReg, lastReg>>

\* after the loop: the task removes its endpoint from tcp_punch and ends
ConnExit(c) ==
    /\ conns[c].pc = "exit"
    /\ RemoveSink(conns[c].addr)
    /\ conns' = [conns EXCEPT ![c].pc = "done"]
    /\ ev' = Quiet
    /\ UNCHANGED <<now, map, db, tx, loop, tasks, nrecv, nticks, accepted, everReg, lastReg>>

(***************************************************************************)
(* The specification.                                                      *)
(***************************************************************************)
Next ==
    \/ Tick
    \/ LoopDrain
    \/ \E id \in PeerIds, addr \in RegAddrs : RecvRegisterPeer(id, addr)
    \/ \E id \in Ids, addr \in RegAddrs, pk \in Keys : RecvRegisterPk(id, addr, pk)
    \/ DbAnswerLoop
    \/ LoopPkFinish
    \/ \E id \in Ids, addr \in ReqAddrs : RecvPunchHoleRequest(id, addr)
    \/ \E p \in Payloads, addr \in ReplyAddrs : RecvHoleSent(p, addr)
    \/ \E p \in Payloads, b \in LocalBytes, addr \in ReplyAddrs : RecvLocalAddr(p, b, addr)
    \/ \E addr \in ReplyAddrs : RecvOther(addr)
    \/ \E addr \in StreamAddrs : Accept(addr)
    \/ \E t \in Running : DbAnswerTask(t)
    \/ \E t \in Running : RegTaskFinish(t)
    \/ \E t \in Running : PunchTaskStart(t)
    \/ \E t \in Running : PunchTaskFinish(t)
    \/ \E c \in ConnIds, id \in Ids : ConnRecvPunchHoleRequest(c, id)
    \/ \E c \in ConnIds : DbAnswerConn(c)
    \/ \E c \in ConnIds : ConnPunchFinish(c)
    \/ \E c \in ConnIds, p \in Payloads : ConnRecvHoleSent(c, p)
    \/ \E c \in ConnIds, p \in Payloads, b \in LocalBytes : ConnRecvLocalAddr(c, p, b)
    \/ \E c \in ConnIds : ConnRecvOther(c)
    \/ \E c \in ConnIds : ConnClose(c)
    \/ \E c \in ConnIds : ConnExit(c)

Spec == Init /\ [][Next]_vars

\* tokio::select! polls its ready branches in random order, so the loop takes
\* a ready item of the channel sooner or later; the store answers every get
\* and the handler resumes
FairSpec ==
    Spec /\ WF_vars(LoopDrain) /\ WF_vars(DbAnswerLoop) /\ WF_vars(LoopPkFinish)


(***************************************************************************)
(* Properties.                                                             *)
(***************************************************************************)
PunchOps == {"punch_hole_request", "tcp_punch_hole_request"}
Forwards == {"punch_hole", "fetch_local_addr"}

\* the key of a cache entry or of a durable record, empty when there is none
CachedPk(id) == IF map[id] = NoPeer THEN EmptyPk ELSE map[id].pk
PersistedPk(id) == IF db[id] = NoRec THEN EmptyPk ELSE db[id].pk

\* C1: once a register_pk was accepted for an id with a non-empty key K1
\* (in this run, or in an earlier one whose record the store still holds),
\* neither the cached nor the persisted key of the id is ever a different
\* non-empty key, and no register_pk with another non-empty key is answered OK.
C1_PkImmutable ==
    \A id \in Ids :
        accepted[id] # EmptyPk =>
            /\ CachedPk(id) \in {EmptyPk, accepted[id]}
            /\ PersistedPk(id) \in {EmptyPk, accepted[id]}
            /\ (ev.op = "register_pk" /\ ev.id = id
                    /\ ev.arg \notin {EmptyPk, accepted[id]})
               => ev.msg.result # "OK"

\* a step that handles a register_pk datagram from the cache, start to end
HandlesPkCached == nrecv' = nrecv + 1 /\ ev'.op = "register_pk"

\* C2: a register_pk(id, K2) handled while the cache entry of id holds a
\* non-empty key K1 # K2 is answered PK_MISMATCH to its sender, and leaves the
\* cache and the durable store as they were.
C2_RejectUnchanged ==
    [][(/\ HandlesPkCached
        /\ map[ev'.id] # NoPeer
        /\ map[ev'.id].pk \notin {EmptyPk, ev'.arg})
       => (/\ ev'.msg = RegisterPkResponse("PK_MISMATCH")
           /\ ev'.to = ev'.from
           /\ ev'.via = "udp"
           /\ map' = map
           /\ db' = db)]_vars

C2_Witness ==
    /\ ev.op = "register_pk"
    /\ ev.msg.result = "PK_MISMATCH"
    /\ ev.arg # EmptyPk
    /\ CachedPk(ev.id) \notin {EmptyPk, ev.arg}

\* a step that handles register_pk(id, K), K non-empty, right after the step
\* that answered a register_pk(id, K)
SecondPk ==
    /\ ev.op = "register_pk"
    /\ ev.arg # EmptyPk
    /\ HandlesPkCached
    /\ ev'.id = ev.id
    /\ ev'.arg = ev.arg

\* what C3 says of the two: both answered OK, the cached key K after each,
\* the second changing neither the cache entry nor the durable record
BothOkNoChange ==
    /\ ev.msg.result = "OK"
    /\ ev'.msg.result = "OK"
    /\ CachedPk(ev.id) = ev.arg
    /\ map'[ev.id] = map[ev.id]
    /\ db'[ev.id] = db[ev.id]

Unknown(id) == ~everReg[id] /\ db[id] = NoRec

\* C4: a punch_hole_request, on either transport, for an id that is in neither
\* the cache nor the store and was never registered is answered ID_NOT_EXIST
\* to the requester, and nothing is forwarded.
C4_UnknownId ==
    /\ (ev.op \in PunchOps /\ Unknown(ev.id)) =>
           /\ ev.msg = PunchHoleResponse(<<>>, "ID_NOT_EXIST")
           /\ ev.to = ev.from
           /\ ev.via = IF ev.op = "punch_hole_request" THEN "tx" ELSE "sink"
           /\ ev.via = "tx" => /\ tx # <<>>
                               /\ tx[Len(tx)] = [msg |-> ev.msg, to |-> ev.from]
    /\ (\A id \in Ids : Unknown(id)) =>
           /\ ev.msg.kind \notin Forwards
           /\ \A i \in 1..Len(tx) : tx[i].msg.kind \notin Forwards

C4_Witness ==
    /\ ev.op = "tcp_punch_hole_request"
    /\ Unknown(ev.id)
    /\ ev.sink # 0
    /\ ev.msg.failure = "ID_NOT_EXIST"

\* the true age of the peer a punch hole decision was made on
TrueAge == TimeSub(now, ev.peer.last_reg_time)

\* C5: a punch_hole_request for a cached target is answered OFFLINE, with no
\* destination, exactly when the true age of the target is 30000 ms or more,
\* however large that age.
C5_Staleness ==
    (ev.op \in PunchOps /\ ev.peer # NoPeer) =>
        IF TimeGeq(TrueAge, Ms(REG_TIMEOUT))
        THEN ev.msg = PunchHoleResponse(<<>>, "OFFLINE") /\ ev.to = ev.from
        ELSE ev.msg.kind \in Forwards

\* C6: for a fresh cached target the forward is fetch_local_addr exactly when
\* requester and target have the same address family and the same IP address,
\* punch_hole otherwise; it embeds encode(requester's observed endpoint) and
\* goes, through the channel, to the target's cached endpoint.
C6_Classification ==
    (ev.op \in PunchOps /\ ev.peer # NoPeer /\ ~TimeGeq(TrueAge, Ms(REG_TIMEOUT))) =>
        /\ ev.msg = IF /\ ev.from.fam = ev.peer.socket_addr.fam
                       /\ ev.from.ip = ev.peer.socket_addr.ip
                    THEN FetchLocalAddr(Encode(ev.from))
                    ELSE PunchHole(Encode(ev.from))
        /\ ev.to = ev.peer.socket_addr
        /\ ev.via = "tx"
        /\ tx # <<>>
        /\ tx[Len(tx)] = [msg |-> ev.msg, to |-> ev.peer.socket_addr]

\* a requester on the target's IP address but another port is classified
C6_Witness ==
    /\ ev.op \in PunchOps
    /\ ev.msg.kind = "fetch_local_addr"
    /\ ev.from.port # ev.to.port

StreamOps == {"tcp_punch_hole_request", "tcp_punch_hole_sent", "tcp_local_addr",
              "tcp_other"}
ForwardingOps == {"tcp_punch_hole_sent", "tcp_local_addr"}

\* C7: a connection task handles at most one forwarding-eligible message;
\* having handled it the task is out of its read loop, handles no further
\* message, and once ended its endpoint is out of tcp_punch.
C7_SingleUse ==
    \A c \in ConnIds :
        /\ conns[c].nfwd <= 1
        /\ conns[c].nfwd = 1 => conns[c].pc \in {"exit", "done"}
        /\ (ev.conn = c /\ ev.op \in StreamOps) =>
               IF ev.op \in ForwardingOps
               THEN conns[c].nfwd = 1 /\ conns[c].pc = "exit"
               ELSE conns[c].nfwd = 0 /\ conns[c].pc = "read"
        /\ conns[c].pc = "done" => tcp_punch[conns[c].addr] # c

C7_Witness ==
    \E c \in ConnIds : conns[c].nfwd = 1 /\ conns[c].pc = "done"

\* C8: the dispatch loop never waits on the durable store: every pending get
\* belongs to a detached task.
C8_LoopNeverWaits == loop.pc # "pk_wait"

\* C9: a reply of a target observed at endpoint t yields one punch_hole_response
\* with failure NONE for decode(embedded endpoint); for punch_hole_sent it
\* carries encode(t), for local_addr the local_addr bytes of the reply.
C9_ReplyRelay ==
    /\ ev.op \in {"punch_hole_sent", "tcp_punch_hole_sent"} =>
           /\ ev.msg = PunchHoleResponse(Encode(ev.from), "NONE")
           /\ ev.to = Decode(ev.arg)
           /\ \A a \in Addrs : ev.arg = Encode(a) => ev.to = a
    /\ ev.op \in {"local_addr", "tcp_local_addr"} =>
           /\ ev.msg = PunchHoleResponse(ev.arg[2], "NONE")
           /\ ev.to = Decode(ev.arg[1])
           /\ \A a \in Addrs : ev.arg[1] = Encode(a) => ev.to = a
    /\ ev.op \in {"punch_hole_sent", "local_addr"} => ev.via = "udp"
    /\ ev.op \in ForwardingOps =>
           /\ ev.via = "sink"
           /\ ev.sink # 0 => conns[ev.sink].addr = ev.to

C9_Witness ==
    /\ ev.op = "punch_hole_sent"
    /\ ev.to # ev.from
    /\ ev.to \in Addrs
    /\ Decode(ev.msg.socket_addr) = ev.from

\* C10: a register_peer_response has request_pk set exactly when no non-empty
\* key is cached and none is persisted for the id when the registration is
\* applied.
C10_RequestPk ==
    (ev.op = "register_peer" /\ ev.msg.kind = "register_peer_response") =>
        (ev.msg.request_pk <=>
            /\ (ev.peer = NoPeer \/ ev.peer.pk = EmptyPk)
            /\ PersistedPk(ev.id) = EmptyPk)

Failures == {"ID_NOT_EXIST", "OFFLINE"}

\* C11: a punch_hole_request on a stream connection whose outcome is a failure,
\* a second or later request on the connection included, is answered on the
\* sink of that connection and the sink is removed from tcp_punch; an outcome
\* with a destination is enqueued on the channel and the sink stays registered.
C11_FailureOnOwnSink ==
    ev.op = "tcp_punch_hole_request" =>
        IF ev.msg.kind = "punch_hole_response"
        THEN /\ ev.msg.failure \in Failures
             /\ ev.via = "sink"
             /\ ev.sink = ev.conn
             /\ tcp_punch[ev.from] = 0
        ELSE /\ ev.via = "tx"
             /\ tx # <<>>
             /\ tx[Len(tx)] = [msg |-> ev.msg, to |-> ev.to]
             /\ tcp_punch[ev.from] = ev.conn

\* C12: when the write of a response on the sink of the originating connection
\* fails, the task of that connection stops reading and its tcp_punch entry is
\* gone; the dispatch loop is not affected.
C12_WriteFailureEndsTask ==
    (ev.op = "tcp_punch_hole_request" /\ ev.via = "sink" /\ ev.failed) =>
        /\ conns[ev.conn].pc \in {"exit", "done"}
        /\ tcp_punch[ev.from] = 0
        /\ loop.pc # "stopped"

\* the channel changes only by an item appended at its end, or by the loop
\* taking its first item and sending that item over the datagram socket
QueueStep ==
    /\ tx' # tx =>
           \/ Len(tx') = Len(tx) + 1 /\ SubSeq(tx', 1, Len(tx)) = tx
           \/ /\ tx # <<>>
              /\ tx' = Tail(tx)
              /\ ev'.op = "drain"
              /\ ev'.msg = Head(tx).msg
              /\ ev'.to = Head(tx).to
              /\ ev'.via = "udp"
    /\ loop'.pc # "stopped"

\* C13: every item of the channel is taken by the loop and sent over the
\* datagram socket once, in the order of the channel, and the channel is
\* emptied again and again, whatever send or handler failed before.
C13_QueueDrains == [][QueueStep]_vars /\ ((tx # <<>>) ~> (tx = <<>>))

\* a send of the loop failed and the loop is at its select with items waiting
C13_Witness ==
    /\ ev.op = "drain"
    /\ ev.failed
    /\ tx # <<>>
    /\ loop.pc = "select"

\* C14: every endpoint of tcp_punch belongs to a connection task that has not
\* ended; a task that has ended has left no entry.
C14_NoLeak ==
    /\ \A a \in Addrs :
           tcp_punch[a] # 0 =>
               /\ conns[tcp_punch[a]].pc \notin {"free", "done"}
               /\ conns[tcp_punch[a]].addr = a
    /\ \A c \in ConnIds :
           conns[c].pc = "done" => \A a \in Addrs : tcp_punch[a] # c

\* a connection closed by its peer, nothing ever written to or relayed by it
C14_Witness ==
    \E c \in ConnIds :
        /\ conns[c].pc = "done"
        /\ conns[c].nfwd = 0
        /\ conns[c].nwritten = 0
        /\ tcp_punch[conns[c].addr] = 0

C16_NoEviction ==
    [][\A id \in Ids :
           map[id] # NoPeer =>
               /\ map'[id] # NoPeer
               /\ (ev'.op \in PunchOps /\ ev'.msg.kind = "punch_hole_response")
                  => map'[id] = map[id]]_vars

C18_ColdLookup ==
    ev.v # NoRec =>
        /\ ev.peer = Peer(SockAddr(4, 0, 0), TimeSub(now, Ms(3600000)), EmptyPk)
        /\ ev.op \in PunchOps =>
               /\ map[ev.id] = Peer(SockAddr(4, 0, 0), TimeSub(now, Ms(3600000)),
                                    ev.v.pk)
               /\ ev.msg = PunchHoleResponse(<<>>, "OFFLINE")
               /\ ev.to = ev.from

C18_Witness ==
    /\ ev.op = "punch_hole_request"
    /\ ev.v # NoRec
    /\ ev.msg.failure = "OFFLINE"
    /\ map[ev.id].pk = K1

\* a task of update_addr is still to insert its entry for id
RegPending(id) == \E t \in Running : t.kind = "reg" /\ t.id = id

\* C19: when no task of update_addr is pending for an id, the cached endpoint
\* and time of the id are those of the latest register_peer (or accepted
\* register_pk) received for it.
C19_LastObserved ==
    \A id \in Ids :
        (lastReg[id] # NoPeer /\ ~RegPending(id) /\ map[id] # NoPeer) =>
            /\ map[id].socket_addr = lastReg[id].addr
            /\ map[id].last_reg_time = lastReg[id].t

\* C20: a lookup that missed the cache and found a durable record inserts its
\* placeholder only when the id is still not in the cache.
C20_NoClobber ==
    [][(ev'.v # NoRec /\ ev'.op \in PunchOps \cup {"register_pk"})
       => map[ev'.id] = NoPeer]_vars

====
